---------------------------- MODULE Spec2Model ----------------------------
(***************************************************************************)
(* A model of src/src/potential_contrail_coverage.py: the potential        *)
(* contrail coverage parameterizations of Burkhardt et al. (2008).         *)
(*                                                                         *)
(* The four functions of the file compute on IEEE-754 binary64 numbers     *)
(* (Python floats, numpy float64 arrays).  The arithmetic is modelled as   *)
(* it is carried out: every operation computes the exact result and        *)
(* rounds it to 53 significant bits, ties to even.  Infinities and         *)
(* not-a-number are values; Python's float division raises                 *)
(* ZeroDivisionError where numpy's returns them.  The exponent is not      *)
(* bounded: the magnitudes the model draws stay far from overflow and      *)
(* from the subnormal range.  The sign of zero is not kept: no operation   *)
(* of the file can tell the zeros apart (the only zero divisor, RHi_sat    *)
(* - RHi_ci with equal operands, is +0).  RHi is a numpy array (line 115   *)
(* assigns through a mask); the thresholds and the temperature are         *)
(* scalars, floats by the docstrings and the defaults.  The                *)
(* operators named variants are the functions with one slip each; the      *)
(* properties at the end are checked against them too, and must fail.      *)
(***************************************************************************)
EXTENDS Integers, Sequences, FiniteSets

(***************************************************************************)
(* Natural numbers of any size: little-endian sequences of limbs below     *)
(* Radix, without leading zero limbs (0 is the empty sequence).  TLC's     *)
(* integers are 32 bits wide, a 53-bit significand is not.  Where a value  *)
(* is used more than once it is passed as an argument rather than named    *)
(* in a LET: TLC evaluates an argument once and a LET at every use.        *)
(***************************************************************************)
LimbWidth == 15
Radix == 2^LimbWidth

RECURSIVE Pow2(_)
Pow2(n) == IF n = 0 THEN 1 ELSE 2 * Pow2(n - 1)

RECURSIVE Norm(_)
Norm(a) == IF a = <<>> THEN <<>>
           ELSE IF a[Len(a)] = 0 THEN Norm(SubSeq(a, 1, Len(a) - 1))
           ELSE a

HeadOr0(a) == IF a = <<>> THEN 0 ELSE Head(a)
TailOrNone(a) == IF a = <<>> THEN <<>> ELSE Tail(a)

\* a + b + c, limb by limb with the carry c.
RECURSIVE AddC(_, _, _)
AddLimb(sum, a, b) == <<sum % Radix>> \o AddC(TailOrNone(a), TailOrNone(b), sum \div Radix)
AddC(a, b, c) ==
  IF a = <<>> /\ b = <<>> THEN (IF c = 0 THEN <<>> ELSE <<c>>)
  ELSE AddLimb(HeadOr0(a) + HeadOr0(b) + c, a, b)

NatAdd(a, b) == AddC(a, b, 0)

\* 2a + bit
Dbl(a, bit) == AddC(a, a, bit)

\* a - b - c for a >= b + c, limb by limb with the borrow c; not normalised.
RECURSIVE SubB(_, _, _)
SubLimb(diff, a, b) ==
  <<diff % Radix>> \o SubB(Tail(a), TailOrNone(b), IF diff < 0 THEN 1 ELSE 0)
SubB(a, b, c) ==
  IF a = <<>> THEN <<>> ELSE SubLimb(Head(a) - HeadOr0(b) - c, a, b)

NatSub(a, b) == Norm(SubB(a, b, 0))

\* -1, 0, 1 as a < b, a = b, a > b.
RECURSIVE CmpFrom(_, _, _)
CmpFrom(a, b, i) ==
  IF i = 0 THEN 0
  ELSE IF a[i] < b[i] THEN -1
  ELSE IF a[i] > b[i] THEN 1
  ELSE CmpFrom(a, b, i - 1)

NatCmp(a, b) ==
  IF Len(a) < Len(b) THEN -1
  ELSE IF Len(a) > Len(b) THEN 1
  ELSE CmpFrom(a, b, Len(a))

\* a * k + c for a limb k.
RECURSIVE MulLimb(_, _, _)
MulStep(prod, a, k) == <<prod % Radix>> \o MulLimb(Tail(a), k, prod \div Radix)
MulLimb(a, k, c) ==
  IF a = <<>> THEN (IF c = 0 THEN <<>> ELSE <<c>>)
  ELSE MulStep(Head(a) * k + c, a, k)

\* a * Radix
ShiftLimb(a) == IF a = <<>> THEN <<>> ELSE <<0>> \o a

RECURSIVE NatMul(_, _)
NatMul(a, b) ==
  IF a = <<>> \/ b = <<>> THEN <<>>
  ELSE NatAdd(Norm(MulLimb(a, Head(b), 0)), ShiftLimb(NatMul(a, Tail(b))))

\* The natural n < Radix^3.
NatOfInt(n) == Norm(<<n % Radix, (n \div Radix) % Radix, n \div (Radix * Radix)>>)

Zeros(n) == [i \in 1..n |-> 0]

\* a * 2^k
Shl(a, k) ==
  IF a = <<>> THEN <<>>
  ELSE Zeros(k \div LimbWidth) \o Norm(MulLimb(a, Pow2(k % LimbWidth), 0))

\* floor(a / 2^k), for k = LimbWidth * q + r: the limbs from q + 1 on,
\* each joined with the low r bits of the next.
ShrLimbs(a, q, lo, hi) ==
  Norm([i \in 1..(Len(a) - q) |->
          (a[q + i] \div lo)
          + (IF q + i < Len(a) THEN (a[q + i + 1] % lo) * hi ELSE 0)])

Shr(a, k) ==
  IF Len(a) <= k \div LimbWidth THEN <<>>
  ELSE ShrLimbs(a, k \div LimbWidth, Pow2(k % LimbWidth),
                Pow2(LimbWidth - (k % LimbWidth)))

RECURSIVE LimbBits(_)
LimbBits(n) == IF n = 0 THEN 0 ELSE 1 + LimbBits(n \div 2)

BitLen(a) == IF a = <<>> THEN 0 ELSE LimbWidth * (Len(a) - 1) + LimbBits(a[Len(a)])

\* Bit i (from 0) of a.
Bit(a, i) == IF i < 0 \/ i \div LimbWidth >= Len(a) THEN 0
             ELSE (a[(i \div LimbWidth) + 1] \div Pow2(i % LimbWidth)) % 2

\* Whether a is a multiple of 2^k.
LowZero(a, k) == a = <<>> \/ Shl(Shr(a, k), k) = a

(***************************************************************************)
(* binary64 values.  A finite value is (-1)^s * m * 2^e with m either 0    *)
(* (and then s = 0, e = 0) or a significand of exactly Precision bits.     *)
(***************************************************************************)
Precision == 53

Zero == [k |-> "num", s |-> 0, e |-> 0, m |-> <<>>]
NaN  == [k |-> "nan", s |-> 0, e |-> 0, m |-> <<>>]
Inf(s) == [k |-> "inf", s |-> s, e |-> 0, m |-> <<>>]
Num(s, m, e) == [k |-> "num", s |-> s, e |-> e, m |-> m]

IsNaN(a) == a.k = "nan"
IsZero(a) == a.k = "num" /\ a.m = <<>>
IsFinite(a) == a.k = "num"

\* The significand q after rounding, which may have grown to Precision + 1
\* bits (then it is a power of two).
RoundFit(s, q, E) ==
  IF BitLen(q) > Precision THEN Num(s, Shr(q, 1), E + 1) ELSE Num(s, q, E)

\* N cut by sh > 0 bits to q, rounded to nearest, ties to even.
RoundCut(s, N, q, sh, E, sticky) ==
  RoundFit(s,
           IF Bit(N, sh - 1) = 1 /\ (sticky \/ Bit(q, 0) = 1 \/ ~LowZero(N, sh - 1))
           THEN NatAdd(q, <<1>>) ELSE q,
           E + sh)

\* (-1)^s * (N + d) * 2^E for a natural N > 0 of L bits, rounded.
RoundLen(s, N, E, sticky, L) ==
  IF L <= Precision THEN Num(s, Shl(N, Precision - L), E - (Precision - L))
  ELSE RoundCut(s, N, Shr(N, L - Precision), L - Precision, E, sticky)

\* (-1)^s * (N + d) * 2^E rounded to nearest, ties to even, where 0 <= d < 1
\* and d > 0 exactly when sticky (the callers keep more than Precision bits
\* in N when sticky).
Round(s, N, E, sticky) ==
  IF N = <<>> THEN Zero ELSE RoundLen(s, N, E, sticky, BitLen(N))

\* One limb of a quotient, bit by bit: for r < 2d, n bits of r / d appended to
\* the bits acc, and what is left: <<digit, remainder>>.
RECURSIVE QuoDigit(_, _, _, _)
QuoDigit(r, d, n, acc) ==
  IF n = 0 THEN <<acc, r>>
  ELSE IF NatCmp(r, d) >= 0
    THEN QuoDigit(Dbl(NatSub(r, d), 0), d, n - 1, 2 * acc + 1)
  ELSE QuoDigit(Dbl(r, 0), d, n - 1, 2 * acc)

\* The first LimbWidth * n bits of the quotient r / d, for r < 2d, and what
\* is left: <<floor(r * 2^(LimbWidth * n - 1) / d), remainder>>.
RECURSIVE QuoLimbs(_, _, _)
QuoJoin(digit, lo) == <<lo[1] \o <<digit>>, lo[2]>>
QuoRest(hi, d, n) == QuoJoin(hi[1], QuoLimbs(hi[2], d, n))
QuoLimbs(r, d, n) ==
  IF n = 0 THEN <<<<>>, r>> ELSE QuoRest(QuoDigit(r, d, LimbWidth, 0), d, n - 1)

\* Limbs enough for Precision + 2 bits of a quotient.
QuoLen == (Precision + 2 + LimbWidth - 1) \div LimbWidth

RatioRound(s, qr, E) == Round(s, Norm(qr[1]), E, qr[2] # <<>>)

\* N of lN bits over D of lD bits, both brought to L bits.
RatioLen(s, N, D, E, lN, lD, L) ==
  RatioRound(s, QuoLimbs(Shl(N, L - lN), Shl(D, L - lD), QuoLen),
             E + lN - lD - (LimbWidth * QuoLen - 1))

RatioLens(s, N, D, E, lN, lD) ==
  RatioLen(s, N, D, E, lN, lD, IF lN > lD THEN lN ELSE lD)

\* (-1)^s * (N / D) * 2^E, rounded, for N > 0 and D > 0.
Ratio(s, N, D, E) == RatioLens(s, N, D, E, BitLen(N), BitLen(D))

RECURSIVE NatPow10(_)
NatPow10(n) == IF n = 0 THEN <<1>> ELSE MulLimb(NatPow10(n - 1), 10, 0)

\* The float a decimal literal denotes: n / 10^p for a natural n, negated
\* when s = 1 (Python reads a literal as the nearest binary64 value).
Dec(s, n, p) == IF n = 0 THEN Zero ELSE Ratio(s, NatOfInt(n), NatPow10(p), 0)

\* An int operand of a float operation is converted to float.
FromInt(n) == IF n < 0 THEN Dec(1, -n, 0) ELSE Dec(0, n, 0)

FNeg(a) == IF a.k = "nan" \/ IsZero(a) THEN a ELSE [a EXCEPT !.s = 1 - a.s]

\* (-1)^sa * A * 2^E + (-1)^sb * B * 2^E for naturals A, B that compare as c.
AddMag(sa, sb, A, B, c, E) ==
  IF sa = sb THEN Round(sa, NatAdd(A, B), E, FALSE)
  ELSE IF c = 0 THEN Zero
  ELSE IF c > 0 THEN Round(sa, NatSub(A, B), E, FALSE)
  ELSE Round(sb, NatSub(B, A), E, FALSE)

AddAligned(sa, sb, A, B, E) == AddMag(sa, sb, A, B, NatCmp(A, B), E)

AddFinite(a, b, E) ==
  AddAligned(a.s, b.s, Shl(a.m, a.e - E), Shl(b.m, b.e - E), E)

FAdd(a, b) ==
  IF a.k = "nan" \/ b.k = "nan" THEN NaN
  ELSE IF a.k = "inf" THEN (IF b.k = "inf" /\ b.s # a.s THEN NaN ELSE a)
  ELSE IF b.k = "inf" THEN b
  ELSE IF a.m = <<>> THEN b
  ELSE IF b.m = <<>> THEN a
  ELSE AddFinite(a, b, IF a.e < b.e THEN a.e ELSE b.e)

FSub(a, b) == FAdd(a, FNeg(b))

FMul(a, b) ==
  IF a.k = "nan" \/ b.k = "nan" THEN NaN
  ELSE IF a.k = "inf" \/ b.k = "inf"
    THEN (IF IsZero(a) \/ IsZero(b) THEN NaN ELSE Inf((a.s + b.s) % 2))
  ELSE IF a.m = <<>> \/ b.m = <<>> THEN Zero
  ELSE Round((a.s + b.s) % 2, NatMul(a.m, b.m), a.e + b.e, FALSE)

\* IEEE division, as numpy carries it out: a zero divisor gives an infinity
\* or not-a-number (and a RuntimeWarning, which is not an exception).
FDiv(a, b) ==
  IF a.k = "nan" \/ b.k = "nan" THEN NaN
  ELSE IF a.k = "inf" THEN (IF b.k = "inf" THEN NaN ELSE Inf((a.s + b.s) % 2))
  ELSE IF b.k = "inf" THEN Zero
  ELSE IF b.m = <<>> THEN (IF a.m = <<>> THEN NaN ELSE Inf(a.s))
  ELSE IF a.m = <<>> THEN Zero
  ELSE Ratio((a.s + b.s) % 2, a.m, b.m, a.e - b.e)

\* The square root bit by bit: n bit pairs of M, from the pair that ends at
\* bit top - 1 down (zeros below bit 0), added to the root res with the
\* remainder rem: <<root, remainder>>.  With r4 the remainder and the next
\* pair, the next bit of the root is 1 when r4 >= 4 * res + 1.
RECURSIVE SqrtBits(_, _, _, _, _)
SqrtPick(M, top, n, r4, res2, cand) ==
  IF NatCmp(r4, cand) >= 0
  THEN SqrtBits(M, top - 2, n - 1, NatSub(r4, cand), AddC(res2, <<>>, 1))
  ELSE SqrtBits(M, top - 2, n - 1, r4, res2)
SqrtTry(M, top, n, r4, res2) == SqrtPick(M, top, n, r4, res2, Dbl(res2, 1))
SqrtBits(M, top, n, rem, res) ==
  IF n = 0 THEN <<res, rem>>
  ELSE SqrtTry(M, top, n, Dbl(Dbl(rem, Bit(M, top)), Bit(M, top - 1)), Dbl(res, 0))

\* The same, SqrtRun * n pairs in runs of SqrtRun.
SqrtRun == (Precision + 3) \div 4
RECURSIVE SqrtRuns(_, _, _)
SqrtMore(M, top, hi) == SqrtBits(M, top, SqrtRun, hi[2], hi[1])
SqrtRuns(M, top, n) ==
  IF n = 0 THEN <<<<>>, <<>>>>
  ELSE SqrtMore(M, top - 2 * SqrtRun * (n - 1), SqrtRuns(M, top, n - 1))

SqrtRound(rr, E) == Round(0, rr[1], E, rr[2] # <<>>)

\* The square root of M * 2^E for an even E and M of Precision or
\* Precision + 1 bits, bit Precision the top one: (Precision + 1) \div 2
\* pairs of M, Precision + 3 pairs in all.
SqrtEven(M, E) ==
  SqrtRound(SqrtRuns(M, Precision, 4),
            (E \div 2) - (4 * SqrtRun - (Precision + 1) \div 2))

\* The correctly rounded square root; of a negative number, not-a-number.
FSqrt(a) ==
  IF a.k = "nan" THEN NaN
  ELSE IF a.k = "inf" THEN (IF a.s = 0 THEN a ELSE NaN)
  ELSE IF a.m = <<>> THEN Zero
  ELSE IF a.s = 1 THEN NaN
  ELSE IF a.e % 2 = 1 THEN SqrtEven(Shl(a.m, 1), a.e - 1)
  ELSE SqrtEven(a.m, a.e)

\* |a| < |b| for finite a, b.
MagLess(a, b) ==
  IF b.m = <<>> THEN FALSE
  ELSE IF a.m = <<>> THEN TRUE
  ELSE a.e < b.e \/ (a.e = b.e /\ NatCmp(a.m, b.m) < 0)

\* |a| < |b|
AbsLess(a, b) ==
  IF a.k = "inf" THEN FALSE
  ELSE IF b.k = "inf" THEN TRUE
  ELSE MagLess(a, b)

IsNegative(a) == a.s = 1 /\ ~IsZero(a)

\* a < b for values that are not not-a-number.
Less(a, b) ==
  IF IsNegative(a) /\ ~IsNegative(b) THEN TRUE
  ELSE IF ~IsNegative(a) /\ IsNegative(b) THEN FALSE
  ELSE IF IsNegative(a) THEN AbsLess(b, a)
  ELSE AbsLess(a, b)

\* Comparisons: every comparison with not-a-number is false.
FLt(a, b) == ~IsNaN(a) /\ ~IsNaN(b) /\ Less(a, b)
FGt(a, b) == FLt(b, a)
FEq(a, b) == ~IsNaN(a) /\ ~IsNaN(b) /\ a = b
FLe(a, b) == FLt(a, b) \/ FEq(a, b)

(***************************************************************************)
(* Python and numpy on top of the arithmetic.                              *)
(***************************************************************************)

\* The int literals 0 and 1 of lines 30, 107 and 112, and the float literal
\* 1.0 of line 115, as operands of float operations.
One == FromInt(1)

\* The literals of line 48.
Lit_2_349 == Dec(0, 2349, 3)
Lit_259 == FromInt(259)

\* x ** 0.5: the square root (numpy returns not-a-number for a negative
\* element of an array, with a RuntimeWarning).
PowHalf(x) == FSqrt(x)

\* A variant of line 77: x * 2 for x ** 2.
PowTwoDoubled(x) == FAdd(x, x)

\* x ** 2
PowTwo(x) == FMul(x, x)

\* The outcome of an evaluation: a value, or a raised exception.
Value(v) == [exc |-> "none", val |-> v]
Raise(name) == [exc |-> name, val |-> NaN]

\* x / y for scalars of type ty: Python's float raises ZeroDivisionError on a
\* zero divisor, numpy's float64 returns an infinity or not-a-number.
ScalarDiv(x, y, ty) ==
  IF ty = "float" /\ IsZero(y) THEN Raise("ZeroDivisionError")
  ELSE Value(FDiv(x, y))

\* numpy applies an operator to an array element by element, scalars
\* broadcast: the array of Op(A[i]), and of Op(A[i], B[i]) for two arrays
\* of one shape.
RECURSIVE Elementwise(_, _)
Elementwise(Op(_), A) ==
  IF A = <<>> THEN <<>>
  ELSE <<Op(Head(A))>> \o Elementwise(Op, Tail(A))

RECURSIVE Elementwise2(_, _, _)
Elementwise2(Op(_, _), A, B) ==
  IF A = <<>> THEN <<>>
  ELSE <<Op(Head(A), Head(B))>> \o Elementwise2(Op, Tail(A), Tail(B))

\* np.maximum(0, x): not-a-number stays.
Maximum0(x) == IF IsNaN(x) THEN NaN ELSE IF FGt(x, Zero) THEN x ELSE Zero

\* Line 30 with the difference RHi_sat - RHi_ci computed once.
CirrusOver(RHi, RHi_ci, den) ==
  Elementwise(LAMBDA x : FSub(One, PowHalf(FSub(One, FDiv(FSub(x, RHi_ci), den)))),
              RHi)

\* A variant of line 30: RHi - RHi_sat for RHi - RHi_ci in the numerator.
CirrusFromSat(RHi, RHi_ci, RHi_sat) ==
  CirrusOver(RHi, RHi_sat, FSub(RHi_sat, RHi_ci))

\* A variant of line 30: without the leading 1 -.
CirrusWithoutComplement(RHi, RHi_ci, RHi_sat) ==
  Elementwise(LAMBDA x :
                PowHalf(FSub(One, FDiv(FSub(x, RHi_ci), FSub(RHi_sat, RHi_ci)))),
              RHi)

\* Line 30, on an array RHi with scalar thresholds.
get_cirrus_coverage(RHi, RHi_ci, RHi_sat) ==
  CirrusOver(RHi, RHi_ci, FSub(RHi_sat, RHi_ci))

\* A variant of line 48: the operands of the subtraction exchanged.
NucReversed(T) == FSub(FDiv(T, Lit_259), Lit_2_349)

\* Line 48.
get_RHi_nuc(T) == FSub(Lit_2_349, FDiv(T, Lit_259))

\* Line 77 after the division: the exception goes on, the quotient is
\* subtracted.
StarFrom(RHi_sat, quo) ==
  IF quo.exc # "none" THEN quo ELSE Value(FSub(RHi_sat, quo.val))

\* A variant of line 77: the quotient added, not subtracted.
StarAbove(RHi_sat, RHi_ci, RHi_cc, ty) ==
  StarFrom(RHi_sat,
           ScalarDiv(FNeg(PowTwo(FSub(RHi_ci, RHi_cc))), FSub(RHi_sat, RHi_ci), ty))

\* Line 77, on scalars of type ty.
get_RHi_star(RHi_sat, RHi_ci, RHi_cc, ty) ==
  StarFrom(RHi_sat, ScalarDiv(PowTwo(FSub(RHi_ci, RHi_cc)), FSub(RHi_sat, RHi_ci), ty))

\* Line 112 with the difference RHi_sat - RHi_ci computed once.
BaseOver(RHi, b_ci, RHi_cc, den) ==
  Elementwise2(LAMBDA x, b : FSub(FDiv(FSub(x, RHi_cc), den), FMul(b, FSub(One, b))),
               RHi, b_ci)

\* A variant of line 112: the value clamped to [0, 1].
Clip01(x) ==
  IF IsNaN(x) THEN NaN ELSE IF FLt(x, Zero) THEN Zero ELSE IF FGt(x, One) THEN One ELSE x

BaseClipped(RHi, b_ci, RHi_ci, RHi_cc, RHi_sat) ==
  Elementwise(Clip01, BaseOver(RHi, b_ci, RHi_cc, FSub(RHi_sat, RHi_ci)))

\* Line 112: the value of the expression.
BaseFormula(RHi, b_ci, RHi_ci, RHi_cc, RHi_sat) ==
  BaseOver(RHi, b_ci, RHi_cc, FSub(RHi_sat, RHi_ci))

\* A variant of line 112: the expression evaluated in place, in the caller's
\* array.
SameArray(RHi) == RHi

\* Line 112: the expression allocates the array it returns; B_cc_ci names
\* that array, not the caller's.
NewArray(RHi) == "res"

\* A variant of line 115: the comparison as the comment of line 114 words it.
MaskBelow(RHi, RHi_star) == Elementwise(LAMBDA x : FLt(x, RHi_star), RHi)

\* Line 115: the boolean mask RHi > RHi_star.
Mask(RHi, RHi_star) == Elementwise(LAMBDA x : FGt(x, RHi_star), RHi)

\* A variant of line 115: 1.0 assigned to the whole array when any element is
\* above RHi_star.
AssignWhole(A, mask) ==
  IF \E i \in DOMAIN mask : mask[i] THEN [i \in DOMAIN A |-> One] ELSE A

\* Line 115: A[mask] = 1.0.
AssignMasked(A, mask) == Elementwise2(LAMBDA x, b : IF b THEN One ELSE x, A, mask)

\* The memory m with the array A under the reference ref.
Store(m, ref, A) == [m EXCEPT ![ref] = A]

\* Lines 107-108: b_ci, a temporary array.
FlooredCirrus(m, RHi, RHi_ci, RHi_sat) ==
  Elementwise(Maximum0, get_cirrus_coverage(m[RHi], RHi_ci, RHi_sat))

\* Line 112: the memory with the new array under B_cc_ci.
AssignBase(m, RHi, B_cc_ci, b_ci, RHi_ci, RHi_cc, RHi_sat) ==
  Store(m, B_cc_ci, BaseFormula(m[RHi], b_ci, RHi_ci, RHi_cc, RHi_sat))

\* Line 115: the memory after the assignment through the mask.
Override(m, RHi, B_cc_ci, RHi_star) ==
  Store(m, B_cc_ci, AssignMasked(m[B_cc_ci], Mask(m[RHi], RHi_star)))

\* Lines 110-116, with b_ci of line 107 and the outcome of line 110's call.
AfterStar(m, RHi, b_ci, RHi_ci, RHi_cc, RHi_sat, RHi_star) ==
  IF RHi_star.exc # "none"
  THEN [exc |-> RHi_star.exc, ref |-> "none", mem |-> m]
  ELSE [exc |-> "none", ref |-> NewArray(RHi),
        mem |-> Override(AssignBase(m, RHi, NewArray(RHi), b_ci, RHi_ci, RHi_cc, RHi_sat),
                         RHi, NewArray(RHi), RHi_star.val)]

\* Lines 107-116 on the memory m, with RHi the reference of the caller's
\* array: the exception raised, or the reference returned, and the memory
\* the call leaves.
get_contrail_cirrus_coverage(m, RHi, RHi_ci, RHi_cc, RHi_sat, ty) ==
  AfterStar(m, RHi, FlooredCirrus(m, RHi, RHi_ci, RHi_sat), RHi_ci, RHi_cc, RHi_sat,
            get_RHi_star(RHi_sat, RHi_ci, RHi_cc, ty))

(***************************************************************************)
(* The caller and the calls.  The caller owns an array of relative         *)
(* humidities and three scalar thresholds of one type.  It calls one of    *)
(* the four functions, holds what the call returned until it drops it or   *)
(* changes an input, and calls again, in any order.                        *)
(***************************************************************************)
VARIABLES
  mem,    \* the arrays: mem.arg is the caller's RHi, mem.res the array the last call allocated
  ci,     \* the caller's RHi_ci
  cc,     \* the caller's RHi_cc
  sat,    \* the caller's RHi_sat
  ty,     \* the type of the thresholds: Python's float or numpy's float64
  temp,   \* the caller's temperature T
  ret     \* what the caller holds of its last call: the function, the exception or the result

vars == <<mem, ci, cc, sat, ty, temp, ret>>

\* The longest array the caller passes.
MaxLen == 2

\* The highest whole temperature, in kelvin.
MaxTemp == 120

\* The default thresholds (lines 7 and 80).
Default_ci == Dec(0, 6, 1)
Default_cc == Dec(0, 4, 1)
Default_sat == Dec(0, 10, 1)

\* The relative humidities the caller's arrays hold.
Humidities ==
  {Dec(0, 3, 1), Dec(0, 5, 1), Dec(0, 6, 1), Dec(0, 9, 1), Dec(0, 95, 2), Dec(0, 10, 1),
   Dec(0, 12, 1)}

\* The thresholds the caller passes: the defaults, two more in the physical
\* order RHi_cc < RHi_ci < RHi_sat, and a degenerate RHi_sat = RHi_ci.
Thresholds ==
  { [ci |-> Default_ci, cc |-> Default_cc, sat |-> Default_sat],
    [ci |-> Dec(0, 8, 1), cc |-> Dec(0, 7, 1), sat |-> Dec(0, 10, 1)],
    [ci |-> Dec(0, 125, 2), cc |-> Dec(0, 75, 2), sat |-> Dec(0, 15, 1)],
    [ci |-> Dec(0, 10, 1), cc |-> Dec(0, 4, 1), sat |-> Dec(0, 10, 1)] }

ScalarTypes == {"float", "float64"}

Arrays == UNION {[1..n -> Humidities] : n \in 0..MaxLen}

\* The temperatures: whole kelvins, 259, and the zero crossing 259 * 2.349.
Temperatures ==
  {FromInt(n) : n \in 0..MaxTemp} \cup {Lit_259, FMul(Lit_259, Lit_2_349)}

NoCall == [fn |-> "none", exc |-> "none", ref |-> "none", scalar |-> Zero]

Init ==
  /\ \E A \in Arrays : mem = [arg |-> A, res |-> <<>>]
  /\ \E t \in Thresholds : ci = t.ci /\ cc = t.cc /\ sat = t.sat
  /\ ty \in ScalarTypes
  /\ temp = Lit_259
  /\ ret = NoCall

\* b = get_cirrus_coverage(RHi, RHi_ci, RHi_sat)
CallCirrusCoverage ==
  /\ ret = NoCall
  /\ mem' = [arg |-> mem.arg, res |-> get_cirrus_coverage(mem.arg, ci, sat)]
  /\ ret' = [fn |-> "get_cirrus_coverage", exc |-> "none", ref |-> "res", scalar |-> Zero]
  /\ UNCHANGED <<ci, cc, sat, ty, temp>>

\* r = get_RHi_nuc(T)
CallRHiNuc ==
  /\ ret = NoCall
  /\ ret' = [fn |-> "get_RHi_nuc", exc |-> "none", ref |-> "none",
             scalar |-> get_RHi_nuc(temp)]
  /\ UNCHANGED <<mem, ci, cc, sat, ty, temp>>

\* The caller receives the outcome of get_RHi_star.
ReturnStar(out) ==
  ret' = [fn |-> "get_RHi_star", exc |-> out.exc, ref |-> "none", scalar |-> out.val]

\* r = get_RHi_star(RHi_sat, RHi_ci, RHi_cc)
CallRHiStar ==
  /\ ret = NoCall
  /\ ReturnStar(get_RHi_star(sat, ci, cc, ty))
  /\ UNCHANGED <<mem, ci, cc, sat, ty, temp>>

\* The caller receives the outcome of get_contrail_cirrus_coverage.
ReturnContrail(out) ==
  /\ mem' = out.mem
  /\ ret' = [fn |-> "get_contrail_cirrus_coverage", exc |-> out.exc,
             ref |-> out.ref, scalar |-> Zero]

\* B = get_contrail_cirrus_coverage(RHi, RHi_ci, RHi_cc, RHi_sat)
CallContrailCirrusCoverage ==
  /\ ret = NoCall
  /\ ReturnContrail(get_contrail_cirrus_coverage(mem, "arg", ci, cc, sat, ty))
  /\ UNCHANGED <<ci, cc, sat, ty, temp>>

\* The caller drops the result it holds.
Drop ==
  /\ ret # NoCall
  /\ mem' = [arg |-> mem.arg, res |-> <<>>]
  /\ ret' = NoCall
  /\ UNCHANGED <<ci, cc, sat, ty, temp>>

\* The caller writes an element of its array, and drops the last result.
SetElement ==
  /\ \E i \in DOMAIN mem.arg, v \in Humidities :
       /\ mem.arg[i] # v
       /\ mem' = [arg |-> [mem.arg EXCEPT ![i] = v], res |-> <<>>]
  /\ ret' = NoCall
  /\ UNCHANGED <<ci, cc, sat, ty, temp>>

\* The caller swaps the first two elements of its array, and drops the last
\* result.
Swap ==
  /\ Len(mem.arg) > 1
  /\ mem.arg[1] # mem.arg[2]
  /\ mem' = [arg |-> <<mem.arg[2], mem.arg[1]>> \o SubSeq(mem.arg, 3, Len(mem.arg)),
             res |-> <<>>]
  /\ ret' = NoCall
  /\ UNCHANGED <<ci, cc, sat, ty, temp>>

\* The caller takes other thresholds, and drops the last result.
SetThresholds ==
  /\ \E t \in Thresholds, u \in ScalarTypes :
       /\ <<t.ci, t.cc, t.sat, u>> # <<ci, cc, sat, ty>>
       /\ ci' = t.ci /\ cc' = t.cc /\ sat' = t.sat /\ ty' = u
  /\ mem' = [arg |-> mem.arg, res |-> <<>>]
  /\ ret' = NoCall
  /\ UNCHANGED temp

\* The caller takes another temperature, and drops the last result.
SetTemperature ==
  /\ \E t \in Temperatures : t # temp /\ temp' = t
  /\ ret' = NoCall
  /\ UNCHANGED <<mem, ci, cc, sat, ty>>

Next ==
  \/ CallCirrusCoverage
  \/ CallRHiNuc
  \/ CallRHiStar
  \/ CallContrailCirrusCoverage
  \/ Drop
  \/ SetElement
  \/ Swap
  \/ SetThresholds

Spec == Init /\ [][Next]_vars

\* The temperature function alone, over all the temperatures.
InitNuc ==
  /\ mem = [arg |-> <<>>, res |-> <<>>]
  /\ ci = Default_ci /\ cc = Default_cc /\ sat = Default_sat
  /\ ty = "float"
  /\ temp \in Temperatures
  /\ ret = NoCall

NextNuc == CallRHiNuc \/ Drop \/ SetTemperature

SpecNuc == InitNuc /\ [][NextNuc]_vars

(***************************************************************************)
(* The properties.                                                         *)
(***************************************************************************)

\* 2^e as a float.
TwoTo(e) == Num(0, Shl(<<1>>, Precision - 1), e - (Precision - 1))

\* The caller holds the result of a call of fn that raised nothing.
Returned(fn) == ret.fn = fn /\ ret.exc = "none"

\* The array the call returned.
Result == mem[ret.ref]

DefaultThresholds == ci = Default_ci /\ cc = Default_cc /\ sat = Default_sat

PhysicalOrder == FLt(cc, ci) /\ FLt(ci, sat)

\* Every element of the input above the threshold star is 1.0 in the result.
OverriddenAbove(star) ==
  \A i \in DOMAIN mem.arg : FGt(mem.arg[i], star) => Result[i] = One

BaseWith(x, b) == FSub(FDiv(FSub(x, cc), FSub(sat, ci)), FMul(b, FSub(One, b)))
Floored(c) == IF IsNaN(c) \/ FGt(c, Zero) THEN c ELSE Zero
BaseAt(x) ==
  BaseWith(x, Floored(FSub(One, FSqrt(FSub(One, FDiv(FSub(x, ci), FSub(sat, ci)))))))

\* Every element of the input at or below star has the value of the base
\* formula in the result.
BaseAtOrBelow(star) ==
  \A i \in DOMAIN mem.arg : FLe(mem.arg[i], star) => Result[i] = BaseAt(mem.arg[i])

\* The element of the result is v wherever the input is x.
Gives(x, v) == \A i \in DOMAIN mem.arg : mem.arg[i] = x => Result[i] = v

C3_NoExceptionWhenDegenerate ==
  (sat = ci /\ ret.fn \in {"get_RHi_star", "get_contrail_cirrus_coverage"}) =>
    /\ ret.exc = "none"
    /\ ret.fn = "get_RHi_star" => ~IsFinite(ret.scalar)
    /\ ret.fn = "get_contrail_cirrus_coverage" =>
         \A i \in DOMAIN Result : ~IsFinite(Result[i])

\* C4: with RHi_ci < RHi_sat, get_cirrus_coverage gives exactly 0 at every
\* element equal to RHi_ci.
C4_ZeroAtCi ==
  (Returned("get_cirrus_coverage") /\ FLt(ci, sat)) => Gives(ci, Zero)

\* C4, its case: an element equal to RHi_ci, with RHi_ci < RHi_sat.
C4_Witness ==
  /\ Returned("get_cirrus_coverage") /\ FLt(ci, sat)
  /\ \E i \in DOMAIN mem.arg : mem.arg[i] = ci /\ Result[i] = Zero

\* C5 as stated: get_cirrus_coverage gives exactly 1 at every element equal
\* to RHi_sat, for every RHi_ci, RHi_ci = RHi_sat too.
C5_AsStated == Returned("get_cirrus_coverage") => Gives(sat, One)

\* C5, amended: with RHi_ci # RHi_sat, get_cirrus_coverage gives exactly 1 at
\* every element equal to RHi_sat.
C5_OneAtSat ==
  (Returned("get_cirrus_coverage") /\ ci # sat) => Gives(sat, One)

\* C5, its case: an element equal to RHi_sat, with RHi_ci # RHi_sat.
C5_Witness ==
  /\ Returned("get_cirrus_coverage") /\ ci # sat
  /\ \E i \in DOMAIN mem.arg : mem.arg[i] = sat /\ Result[i] = One

\* C6: with RHi_sat # RHi_ci, get_RHi_star returns
\* RHi_sat - (RHi_ci - RHi_cc)^2 / (RHi_sat - RHi_ci), and for (1.0, 0.6, 0.4)
\* that is 0.9.
C6_StarFormula ==
  (ret.fn = "get_RHi_star" /\ sat # ci) =>
    /\ ret.exc = "none"
    /\ ret.scalar = FSub(sat, FDiv(FMul(FSub(ci, cc), FSub(ci, cc)), FSub(sat, ci)))
    /\ DefaultThresholds => ret.scalar = Dec(0, 9, 1)

\* C6, its case: get_RHi_star(1.0, 0.6, 0.4) returned.
C6_Witness ==
  Returned("get_RHi_star") /\ DefaultThresholds /\ ret.scalar = Dec(0, 9, 1)

\* C7 as stated: get_RHi_nuc returns 2.349 - T/259 for every T: 2.349 at
\* T = 0, 1.349 at T = 259 and 0 at T = 259 * 2.349.
C7_AsStated ==
  ret.fn = "get_RHi_nuc" =>
    /\ ret.exc = "none"
    /\ ret.scalar = FSub(Lit_2_349, FDiv(temp, Lit_259))
    /\ temp = Zero => ret.scalar = Dec(0, 2349, 3)
    /\ temp = FromInt(259) => ret.scalar = Dec(0, 1349, 3)
    /\ temp = FMul(FromInt(259), Dec(0, 2349, 3)) => ret.scalar = Zero

\* C7, amended: get_RHi_nuc returns 2.349 - T/259 for every T and raises
\* nothing: 2.349 at T = 0, 1.349 + 2^-52 at T = 259 and 0 at
\* T = 259 * 2.349.
C7_NucFormula ==
  ret.fn = "get_RHi_nuc" =>
    /\ ret.exc = "none"
    /\ ret.scalar = FSub(Lit_2_349, FDiv(temp, Lit_259))
    /\ temp = Zero => ret.scalar = Dec(0, 2349, 3)
    /\ temp = FromInt(259) => ret.scalar = FAdd(Dec(0, 1349, 3), TwoTo(-52))
    /\ temp = FMul(FromInt(259), Dec(0, 2349, 3)) => ret.scalar = Zero

\* C7, its case: get_RHi_nuc(259) returned.
C7_Witness ==
  /\ Returned("get_RHi_nuc") /\ temp = FromInt(259)
  /\ ret.scalar = FAdd(Dec(0, 1349, 3), TwoTo(-52))

\* What fn gives for the array of the one element x.
Single(fn, x) ==
  IF fn = "get_cirrus_coverage" THEN get_cirrus_coverage(<<x>>, ci, sat)[1]
  ELSE get_contrail_cirrus_coverage([arg |-> <<x>>, res |-> <<>>],
                                    "arg", ci, cc, sat, ty).mem.res[1]

\* C8: the array get_contrail_cirrus_coverage or get_cirrus_coverage returns
\* is as long as the input, and its element i is what the function gives for
\* RHi[i] alone with the same thresholds, so that no other element and no
\* position decides it.
C8_ElementCorrespondence ==
  \A fn \in {"get_cirrus_coverage", "get_contrail_cirrus_coverage"} :
    Returned(fn) =>
      /\ Len(Result) = Len(mem.arg)
      /\ \A i \in DOMAIN mem.arg : Result[i] = Single(fn, mem.arg[i])

\* C8, its case: an array of two elements, one overridden and one not.
C8_Witness ==
  /\ Returned("get_contrail_cirrus_coverage")
  /\ Len(mem.arg) = 2
  /\ FGt(mem.arg[2], get_RHi_star(sat, ci, cc, ty).val) /\ Result[2] = One
  /\ FLt(mem.arg[1], get_RHi_star(sat, ci, cc, ty).val) /\ Result[1] # One

\* C9: a call of get_contrail_cirrus_coverage leaves the caller's array and
\* thresholds as they were, returns an array that is not the caller's, and a
\* second call in the state it leaves returns the same.
C9_NoSideEffect ==
  [][(ret.fn = "none" /\ ret'.fn = "get_contrail_cirrus_coverage") =>
       /\ mem'.arg = mem.arg
       /\ <<ci', cc', sat', ty'>> = <<ci, cc, sat, ty>>
       /\ ret'.ref # "arg"
       /\ ret'.exc = "none" =>
            get_contrail_cirrus_coverage(mem', "arg", ci', cc', sat', ty').mem[ret'.ref]
              = mem'[ret'.ref]]_vars

\* C9, its case: the call returned an array with an overridden element, and
\* the caller's array still holds the input of that element.
C9_Witness ==
  /\ Returned("get_contrail_cirrus_coverage")
  /\ \E i \in DOMAIN mem.arg : Result[i] = One /\ mem.arg[i] = Dec(0, 12, 1)

\* No element of the result is above 1 or not-a-number, the elements above
\* RHi_sat are 1.0, and the element at star is 1.0.
WithinOne(star) ==
  \A i \in DOMAIN mem.arg :
    /\ ~IsNaN(Result[i])
    /\ FLe(Result[i], One)
    /\ FGt(mem.arg[i], sat) => Result[i] = One
    /\ mem.arg[i] = star => Result[i] = One

Defined ==
  \A i \in DOMAIN mem.arg :
    /\ ~IsNaN(Result[i])
    /\ FGt(mem.arg[i], sat) => Result[i] = One

=============================================================================
